---- MODULE Spec2Model ----
(***************************************************************************)
(* Model of the rlox lexer (src/src/lexer.rs): the Cursor, its scan        *)
(* routines and the token stream adapter `tokenize`.                       *)
(*                                                                         *)
(* A character is a one-character string, a string is a sequence of        *)
(* characters.  A token is a record with the variant's name in `type` and  *)
(* the variant's payload in `text` (Ident, String, Comment), `num`         *)
(* (Number) or `line`/`col` (Unexpected); unused payload fields are zero.  *)
(***************************************************************************)
EXTENDS Integers, Sequences, FiniteSets, TLC

\* ------------------------------------------------------------------ bounds
\* Longest input of the general specification.
MaxLen == 3
\* Pulls made on the stream after it has returned end-of-sequence.
MaxExtraPulls == 2

\* ------------------------------------------------------------- characters
\* const EOF_CHAR: char = '\0'  (a character no modelled input contains)
EOF_CHAR == "EOF_CHAR"

\* Option<char>::None and Option<Token>::None
None == "None"

Digits == {"0", "1", "2", "3", "4", "5", "6", "7", "8", "9"}

\* The ASCII letters, lower and upper case in the same order
LowerSeq ==
    <<"a", "b", "c", "d", "e", "f", "g", "h", "i", "j", "k", "l", "m",
      "n", "o", "p", "q", "r", "s", "t", "u", "v", "w", "x", "y", "z">>

UpperSeq ==
    <<"A", "B", "C", "D", "E", "F", "G", "H", "I", "J", "K", "L", "M",
      "N", "O", "P", "Q", "R", "S", "T", "U", "V", "W", "X", "Y", "Z">>

LowerLetters == {LowerSeq[i] : i \in 1..Len(LowerSeq)}

UpperLetters == {UpperSeq[i] : i \in 1..Len(UpperSeq)}

\* char::is_whitespace, on the characters the model uses
IsWhitespace(c) == c \in {" ", "\n", "\t", "\r"}

\* char::is_digit(10)
IsDigit(c) == c \in Digits

\* Cursor::is_alpha
IsAlpha(c) == c \in LowerLetters \cup UpperLetters \/ c = "_"

\* Cursor::is_alphanumeric
IsAlphanumeric(c) == IsAlpha(c) \/ IsDigit(c)

\* ----------------------------------------------------------------- tokens
Tok(t) == [type |-> t, text |-> <<>>, num |-> <<0, 0>>, line |-> 0, col |-> 0]

TokText(t, s) == [Tok(t) EXCEPT !.text = s]

TokNumber(v) == [Tok("Number") EXCEPT !.num = v]

TokUnexpected(l, c) == [Tok("Unexpected") EXCEPT !.line = l, !.col = c]

\* ----------------------------------------------------------------- cursor
\* Cursor::new
CursorNew(input) == [iter |-> input, line |-> 1, col |-> 0, prev |-> EOF_CHAR]

\* Cursor::next without the reset of col at a new line
CursorNext_NoColReset(c) ==
    LET line1 == IF c.prev = "\n" THEN c.line + 1 ELSE c.line
        col1  == c.col + 1
        nxt   == IF c.iter = <<>> THEN None ELSE Head(c.iter)
        iter1 == IF c.iter = <<>> THEN <<>> ELSE Tail(c.iter)
    IN  [cur |-> [iter |-> iter1, line |-> line1, col |-> col1,
                  prev |-> IF nxt = None THEN EOF_CHAR ELSE nxt],
         ret |-> nxt]

\* Cursor::next: the cursor after the call and the character returned
CursorNext(c) ==
    LET line1 == IF c.prev = "\n" THEN c.line + 1 ELSE c.line
        col1  == (IF c.prev = "\n" THEN 0 ELSE c.col) + 1
        nxt   == IF c.iter = <<>> THEN None ELSE Head(c.iter)
        iter1 == IF c.iter = <<>> THEN <<>> ELSE Tail(c.iter)
    IN  [cur |-> [iter |-> iter1, line |-> line1, col |-> col1,
                  prev |-> IF nxt = None THEN EOF_CHAR ELSE nxt],
         ret |-> nxt]

\* Cursor::peek
CursorPeek(c) == IF c.iter = <<>> THEN None ELSE Head(c.iter)

\* next_matches consuming the next character before comparing it
NextMatches_ConsumesOnMismatch(c, expected) ==
    [cur |-> CursorNext(c).cur, ret |-> CursorNext(c).ret = expected]

\* Cursor::next_matches
NextMatches(c, expected) ==
    IF CursorPeek(c) # None /\ CursorPeek(c) = expected
    THEN [cur |-> CursorNext(c).cur, ret |-> TRUE]
    ELSE [cur |-> c, ret |-> FALSE]

\* ------------------------------------------------------ scan predicates
\* The closures handed to take_while / eat_while.  A closure that captures
\* mutable state (has_dot, escaped) takes that state and returns the new one.

\* a predicate of eat_while that takes blanks only
WhitespacePred_OnlyBlanks(st, ch) == [ok |-> ch = " ", st |-> st]

\* char::is_whitespace, as the predicate of eat_while
WhitespacePred(st, ch) == [ok |-> IsWhitespace(ch), st |-> st]

\* |c| c != '\n'
CommentPred(st, ch) == [ok |-> ch # "\n", st |-> st]

\* is_alpha handed to take_while in place of is_alphanumeric
IdentPred_NoDigits(st, ch) == [ok |-> IsAlpha(ch), st |-> st]

\* Self::is_alphanumeric
IdentPred(st, ch) == [ok |-> IsAlphanumeric(ch), st |-> st]

\* the closure of Cursor::number never setting has_dot
NumberPred_AnyDots(st, ch) == [ok |-> IsDigit(ch) \/ ch = ".", st |-> st]

\* the closure of Cursor::number; st is has_dot
NumberPred(st, ch) ==
    IF IsDigit(ch) THEN [ok |-> TRUE, st |-> st]
    ELSE IF ch = "." /\ ~st THEN [ok |-> TRUE, st |-> TRUE]
    ELSE [ok |-> FALSE, st |-> st]

\* the closure of Cursor::string also stopping at a newline
StringPred_StopsAtNewline(st, ch) ==
    [ok |-> (st \/ ch # "\"") /\ ch # "\n", st |-> (ch = "\\")]

\* the closure of Cursor::string; st is escaped
StringPred(st, ch) == [ok |-> (st \/ ch # "\""), st |-> (ch = "\\")]

Predicate(kind, st, ch) ==
    CASE kind = "whitespace" -> WhitespacePred(st, ch)
      [] kind = "comment"    -> CommentPred(st, ch)
      [] kind = "ident"      -> IdentPred(st, ch)
      [] kind = "number"     -> NumberPred(st, ch)
      [] kind = "string"     -> StringPred(st, ch)

\* Cursor::take_while: the cursor after the loop and the string collected
RECURSIVE TakeWhile(_, _, _, _)
TakeWhile(c, kind, st, string) ==
    IF CursorPeek(c) = None THEN [cur |-> c, str |-> string]
    ELSE LET second_char == CursorPeek(c)
             p == Predicate(kind, st, second_char)
         IN  IF ~p.ok THEN [cur |-> c, str |-> string]
             ELSE TakeWhile(CursorNext(c).cur, kind, p.st,
                            Append(string, second_char))

\* Cursor::eat_while: the cursor after the loop
RECURSIVE EatWhile(_, _, _)
EatWhile(c, kind, st) ==
    IF CursorPeek(c) = None THEN c
    ELSE LET p == Predicate(kind, st, CursorPeek(c))
         IN  IF ~p.ok THEN c
             ELSE EatWhile(CursorNext(c).cur, kind, p.st)

\* ---------------------------------------------------------- scan routines
\* The lexeme with its upper-case letters turned to lower case
ToLower(ident) ==
    [i \in 1..Len(ident) |->
        IF ident[i] \in UpperLetters
        THEN LowerSeq[CHOOSE k \in 1..Len(UpperSeq) : UpperSeq[k] = ident[i]]
        ELSE ident[i]]

\* The arms of the match of Cursor::identifier
KeywordOf(ident) ==
    CASE ident = <<"a", "n", "d">> -> "And"
      [] ident = <<"c", "l", "a", "s", "s">> -> "Class"
      [] ident = <<"e", "l", "s", "e">> -> "Else"
      [] ident = <<"f", "a", "l", "s", "e">> -> "False"
      [] ident = <<"f", "o", "r">> -> "For"
      [] ident = <<"f", "u", "n">> -> "Fun"
      [] ident = <<"i", "f">> -> "If"
      [] ident = <<"n", "i", "l">> -> "Nil"
      [] ident = <<"o", "r">> -> "Or"
      [] ident = <<"p", "r", "i", "n", "t">> -> "Print"
      [] ident = <<"r", "e", "t", "u", "r", "n">> -> "Return"
      [] ident = <<"s", "u", "p", "e", "r">> -> "Super"
      [] ident = <<"t", "h", "i", "s">> -> "This"
      [] ident = <<"t", "r", "u", "e">> -> "True"
      [] ident = <<"v", "a", "r">> -> "Var"
      [] ident = <<"w", "h", "i", "l", "e">> -> "While"
      [] OTHER -> None

\* The match of Cursor::identifier made without regard to case
Keyword_IgnoresCase(ident) == KeywordOf(ToLower(ident))

\* The match of Cursor::identifier: the keyword variant of a lexeme, or None
Keyword(ident) == KeywordOf(ident)

\* Cursor::identifier
Identifier(c, first_char) ==
    LET r     == TakeWhile(c, "ident", FALSE, <<>>)
        ident == <<first_char>> \o r.str
    IN  [cur |-> r.cur,
         tok |-> IF Keyword(ident) # None THEN Tok(Keyword(ident))
                 ELSE TokText("Ident", ident)]

\* The digit's value
DigitValue(ch) ==
    CASE ch = "0" -> 0 [] ch = "1" -> 1 [] ch = "2" -> 2 [] ch = "3" -> 3
      [] ch = "4" -> 4 [] ch = "5" -> 5 [] ch = "6" -> 6 [] ch = "7" -> 7
      [] ch = "8" -> 8 [] ch = "9" -> 9

\* The decimal m / 10^e in lowest terms of ten: the value of an f64 read from
\* a short decimal lexeme (two lexemes of at most 15 significant digits give
\* the same f64 exactly when they denote the same decimal).
RECURSIVE Normalize(_, _)
Normalize(m, e) ==
    IF e > 0 /\ m % 10 = 0 THEN Normalize(m \div 10, e - 1) ELSE <<m, e>>

\* The digits of a lexeme read as a decimal: <<mantissa, digits after '.'>>
RECURSIVE ReadDecimal(_, _, _, _)
ReadDecimal(s, m, e, seen_dot) ==
    IF s = <<>> THEN <<m, e>>
    ELSE IF Head(s) = "." THEN ReadDecimal(Tail(s), m, e, TRUE)
    ELSE ReadDecimal(Tail(s), m * 10 + DigitValue(Head(s)),
                     IF seen_dot THEN e + 1 ELSE e, seen_dot)

\* A parse that wants a digit on both sides of the '.'
ParseF64_NoBareDot(s) ==
    LET dots   == {i \in 1..Len(s) : s[i] = "."}
        digits == {i \in 1..Len(s) : IsDigit(s[i])}
        ok     == /\ dots \cup digits = 1..Len(s)
                  /\ Cardinality(dots) <= 1
                  /\ digits # {}
                  /\ 1 \notin dots /\ Len(s) \notin dots
        d      == ReadDecimal(s, 0, 0, FALSE)
    IN  [ok |-> ok, val |-> IF ok THEN Normalize(d[1], d[2]) ELSE <<0, 0>>]

\* str::parse::<f64> on an unsigned lexeme without exponent: Ok exactly when
\* the lexeme is digits with at most one '.' and at least one digit
ParseF64(s) ==
    LET dots   == {i \in 1..Len(s) : s[i] = "."}
        digits == {i \in 1..Len(s) : IsDigit(s[i])}
        ok     == /\ dots \cup digits = 1..Len(s)
                  /\ Cardinality(dots) <= 1
                  /\ digits # {}
        d      == ReadDecimal(s, 0, 0, FALSE)
    IN  [ok |-> ok, val |-> IF ok THEN Normalize(d[1], d[2]) ELSE <<0, 0>>]

\* Cursor::number
Number(c, first_char) ==
    LET r      == TakeWhile(c, "number", FALSE, <<>>)
        number == <<first_char>> \o r.str
        parsed == ParseF64(number)
    IN  [cur |-> r.cur,
         tok |-> IF parsed.ok THEN TokNumber(parsed.val) ELSE Tok("Unknown")]

\* Cursor::string decoding the escapes: the payload loses its backslashes
String_Unescapes(c) ==
    LET r == TakeWhile(c, "string", FALSE, <<>>)
    IN  IF CursorPeek(r.cur) # "\""
        THEN [cur |-> r.cur,
              tok |-> TokUnexpected(r.cur.line, r.cur.col + 1)]
        ELSE [cur |-> CursorNext(r.cur).cur,
              tok |-> TokText("String", SelectSeq(r.str, LAMBDA ch : ch # "\\"))]

\* Cursor::string
String(c) ==
    LET r == TakeWhile(c, "string", FALSE, <<>>)
    IN  IF CursorPeek(r.cur) # "\""
        THEN [cur |-> r.cur,
              tok |-> TokUnexpected(r.cur.line, r.cur.col + 1)]
        ELSE [cur |-> CursorNext(r.cur).cur, tok |-> TokText("String", r.str)]

\* The arms of advance_token that return a fixed token without lookahead
PunctuationOf(ch) ==
    CASE ch = "(" -> "LeftParen"  [] ch = ")" -> "RightParen"
      [] ch = "{" -> "LeftBrace"  [] ch = "}" -> "RightBrace"
      [] ch = "," -> "Comma"      [] ch = "." -> "Dot"
      [] ch = "-" -> "Minus"      [] ch = "+" -> "Plus"
      [] ch = ";" -> "Semicolon"  [] ch = "*" -> "Star"
      [] OTHER -> None

\* The punctuation arms with the tokens of '-' and '+' exchanged
Punctuation_SwapsPlusMinus(ch) ==
    CASE ch = "-" -> "Plus" [] ch = "+" -> "Minus" [] OTHER -> PunctuationOf(ch)

\* The fixed token of a punctuation character matched without lookahead
Punctuation(ch) == PunctuationOf(ch)

\* The arms '!' '=' '<' '>' of advance_token
OneOrTwo(c, one, two) ==
    LET m == NextMatches(c, "=")
    IN  [cur |-> m.cur, tok |-> IF m.ret THEN Tok(two) ELSE Tok(one)]

\* The arm '/' of advance_token also consuming the newline that ends the
\* comment
SlashOrComment_ConsumesNewline(c) ==
    LET m == NextMatches(c, "/")
    IN  IF m.ret
        THEN LET r == TakeWhile(m.cur, "comment", FALSE, <<>>)
             IN  [cur |-> CursorNext(r.cur).cur, tok |-> TokText("Comment", r.str)]
        ELSE [cur |-> m.cur, tok |-> Tok("Slash")]

\* The arm '/' of advance_token
SlashOrComment(c) ==
    LET m == NextMatches(c, "/")
    IN  IF m.ret
        THEN LET r == TakeWhile(m.cur, "comment", FALSE, <<>>)
             IN  [cur |-> r.cur, tok |-> TokText("Comment", r.str)]
        ELSE [cur |-> m.cur, tok |-> Tok("Slash")]

\* The dispatch of advance_token on the outcome n of its first self.next()
Dispatch(n) ==
    LET c == n.cur
        first_char == n.ret
    IN  IF first_char = None THEN [cur |-> c, tok |-> Tok("Eof")]
        ELSE CASE IsWhitespace(first_char) ->
                    [cur |-> EatWhile(c, "whitespace", FALSE),
                     tok |-> Tok("Whitespace")]
               [] Punctuation(first_char) # None ->
                    [cur |-> c, tok |-> Tok(Punctuation(first_char))]
               [] first_char = "!" -> OneOrTwo(c, "Bang", "BangEqual")
               [] first_char = "=" -> OneOrTwo(c, "Equal", "EqualEqual")
               [] first_char = "<" -> OneOrTwo(c, "Less", "LessEqual")
               [] first_char = ">" -> OneOrTwo(c, "Greater", "GreaterEqual")
               [] first_char = "/" -> SlashOrComment(c)
               [] first_char = "\"" -> String(c)
               [] IsDigit(first_char) -> Number(c, first_char)
               [] IsAlpha(first_char) -> Identifier(c, first_char)
               [] OTHER -> [cur |-> c, tok |-> Tok("Unknown")]

\* advance_token looking at its first character with peek instead of next
AdvanceToken_PeekFirst(c0) == Dispatch([cur |-> c0, ret |-> CursorPeek(c0)])

\* Cursor::advance_token: the cursor after the call and the token returned
AdvanceToken(c0) == Dispatch(CursorNext(c0))

\* The closure of tokenize also ending the sequence at a Whitespace token
TokenizeNext_StopsAtWhitespace(c) ==
    LET r == AdvanceToken(c)
    IN  [cur |-> r.cur,
         item |-> IF r.tok.type \in {"Eof", "Whitespace"} THEN <<>>
                  ELSE <<r.tok>>]

\* The closure of tokenize: the cursor after one pull and the Option<Token>
\* it returns, None as <<>> and Some(token) as <<token>>
TokenizeNext(c) ==
    LET r == AdvanceToken(c)
    IN  [cur |-> r.cur,
         item |-> IF r.tok.type = "Eof" THEN <<>> ELSE <<r.tok>>]

\* ------------------------------------------------------------------ state
\* source  the text handed to tokenize
\* cursor  the Cursor the stream's closure owns
\* out     the tokens the consumer has been handed so far, in order
\* offsets offsets[i] is the number of characters of source consumed when
\*         out[i] was handed over
\* ended   a pull has returned end-of-sequence (None)
\* extra   the number of pulls made after that
\* pulls   the number of pulls made so far
\* eofNexts the number of calls of Cursor::next made with no character left
\* last    the latest call: its name, what it returned (as a string) and
\*         the cursor it was made on
\* prompt  the interactive loop of main.rs: its status, the reads made so far,
\*         the lines handed to run and the tokens printed, in order
VARIABLES source, cursor, out, offsets, ended, extra, pulls, eofNexts, last,
          prompt

vars ==
    <<source, cursor, out, offsets, ended, extra, pulls, eofNexts, last, prompt>>

\* The interactive loop before run_prompt is entered
PromptIdle == [status |-> "idle", reads |-> <<>>, ran |-> <<>>, printed |-> <<>>]

\* Sequences over S of length at most n
BoundedSeq(S, n) == UNION {[1..k -> S] : k \in 0..n}

\* tokenize(input): the state of the stream before the first pull
Start(input) ==
    /\ source = input
    /\ cursor = CursorNew(input)
    /\ out = <<>>
    /\ offsets = <<>>
    /\ ended = FALSE
    /\ extra = 0
    /\ pulls = 0
    /\ eofNexts = 0
    /\ last = [op |-> "new", ret |-> None, before |-> CursorNew(input)]
    /\ prompt = PromptIdle

\* One pull of the iterator tokenize returns (Iterator::next of from_fn)
Pull ==
    /\ extra < MaxExtraPulls
    /\ LET r == TokenizeNext(cursor)
       IN  /\ cursor' = r.cur
           /\ out' = out \o r.item
           /\ offsets' = IF r.item = <<>> THEN offsets
                         ELSE Append(offsets, Len(source) - Len(r.cur.iter))
           /\ ended' = (ended \/ r.item = <<>>)
           /\ extra' = IF ended THEN extra + 1 ELSE extra
           /\ pulls' = pulls + 1
           \* advance_token calls next with nothing left exactly when it
           \* returns Eof, and then once
           /\ eofNexts' = IF r.item = <<>> THEN eofNexts + 1 ELSE eofNexts
           /\ last' = [op |-> "pull",
                       ret |-> IF r.item = <<>> THEN None ELSE r.item[1].type,
                       before |-> cursor]
    /\ UNCHANGED <<source, prompt>>

Next == Pull

\* Characters of every class advance_token tells apart
Alphabet ==
    {" ", "\n", "(", ".", "/", "!", "=", "<", "\"", "\\", "1", "a", "_", "@"}

Init == \E input \in BoundedSeq(Alphabet, MaxLen) : Start(input)

Spec == Init /\ [][Next]_vars

\* Inputs made of string literals: quotes, backslashes, a letter, newlines
MaxStrLen == 6

StrAlphabet == {"\"", "\\", "a", "\n"}

InitStr == \E input \in BoundedSeq(StrAlphabet, MaxStrLen) : Start(input)

SpecStr == InitStr /\ [][Next]_vars

\* Inputs made of the eleven punctuation characters
MaxPunctLen == 3

PunctAlphabet == {"(", ")", "{", "}", ",", ".", "-", "+", ";", "/", "*"}

InitPunct == \E input \in BoundedSeq(PunctAlphabet, MaxPunctLen) : Start(input)

SpecPunct == InitPunct /\ [][Next]_vars

\* Inputs made of the operator characters, a blank and a letter
MaxOpLen == 4

OpAlphabet == {"!", "=", "<", ">", " ", "a"}

InitOp == \E input \in BoundedSeq(OpAlphabet, MaxOpLen) : Start(input)

SpecOp == InitOp /\ [][Next]_vars

\* Inputs made of digits, dots and a letter
MaxNumLen == 5

NumAlphabet == {"0", "1", "2", "3", ".", "a"}

InitNum == \E input \in BoundedSeq(NumAlphabet, MaxNumLen) : Start(input)

SpecNum == InitNum /\ [][Next]_vars

\* Inputs made of letters (of the keyword `or`), underscore, a digit, a
\* blank and a dot
MaxIdentLen == 5

IdentAlphabet == {"o", "r", "_", "1", " ", "."}

InitIdent == \E input \in BoundedSeq(IdentAlphabet, MaxIdentLen) : Start(input)

SpecIdent == InitIdent /\ [][Next]_vars

\* Inputs made of slashes, newlines, a letter and a blank
MaxCommentLen == 5

CommentAlphabet == {"/", "\n", "a", " "}

InitComment ==
    \E input \in BoundedSeq(CommentAlphabet, MaxCommentLen) : Start(input)

SpecComment == InitComment /\ [][Next]_vars

\* Inputs built around the reserved words: a reserved word, or one with its
\* last letter cut, its first letter or all letters in upper case, put
\* between a short prefix and a short suffix; and the word `printable`
MaxAffixLen == 1

ReservedWords ==
    {<<<<"a", "n", "d">>, "And">>,
     <<<<"c", "l", "a", "s", "s">>, "Class">>,
     <<<<"e", "l", "s", "e">>, "Else">>,
     <<<<"f", "a", "l", "s", "e">>, "False">>,
     <<<<"f", "o", "r">>, "For">>,
     <<<<"f", "u", "n">>, "Fun">>,
     <<<<"i", "f">>, "If">>,
     <<<<"n", "i", "l">>, "Nil">>,
     <<<<"o", "r">>, "Or">>,
     <<<<"p", "r", "i", "n", "t">>, "Print">>,
     <<<<"r", "e", "t", "u", "r", "n">>, "Return">>,
     <<<<"s", "u", "p", "e", "r">>, "Super">>,
     <<<<"t", "h", "i", "s">>, "This">>,
     <<<<"t", "r", "u", "e">>, "True">>,
     <<<<"v", "a", "r">>, "Var">>,
     <<<<"w", "h", "i", "l", "e">>, "While">>}

ReservedLexemes == {p[1] : p \in ReservedWords}

KeywordTypes == {p[2] : p \in ReservedWords}

ToUpper(w) ==
    [i \in 1..Len(w) |->
        IF w[i] \in LowerLetters
        THEN UpperSeq[CHOOSE k \in 1..Len(LowerSeq) : LowerSeq[k] = w[i]]
        ELSE w[i]]

Capitalize(w) == [i \in 1..Len(w) |-> IF i = 1 THEN ToUpper(w)[1] ELSE w[i]]

WordVariants(w) ==
    {w, SubSeq(w, 1, Len(w) - 1), Capitalize(w), ToUpper(w)}

Printable == <<"p", "r", "i", "n", "t", "a", "b", "l", "e">>

AffixAlphabet == {"s", "_", "1", " ", "("}

WordInputs ==
    {Printable} \cup
    {pre \o v \o suf :
        pre \in BoundedSeq(AffixAlphabet, MaxAffixLen),
        v \in UNION {WordVariants(w) : w \in ReservedLexemes},
        suf \in BoundedSeq(AffixAlphabet, MaxAffixLen)}

InitWords == \E input \in WordInputs : Start(input)

SpecWords == InitWords /\ [][Next]_vars

\* Inputs made of whitespace (blank, newline, tab), a letter, a quote and a
\* slash
MaxWsLen == 5

WsAlphabet == {" ", "\n", "\t", "a", "\"", "/"}

InitWs == \E input \in BoundedSeq(WsAlphabet, MaxWsLen) : Start(input)

SpecWs == InitWs /\ [][Next]_vars

\* ---------------------------------------------------- the cursor's calls
\* The calls advance_token and the scan routines make on their cursor, one
\* call a step, in any order: every cursor state a scan passes through is a
\* state of this specification.
MaxCursorLen == 4

\* Calls of next made with no character left
MaxEofNexts == 2

CursorAlphabet == {"a", "\n", "="}

\* self.next()
CallNext ==
    /\ eofNexts < MaxEofNexts
    /\ LET n == CursorNext(cursor)
       IN  /\ cursor' = n.cur
           /\ eofNexts' = IF n.ret = None THEN eofNexts + 1 ELSE eofNexts
           /\ last' = [op |-> "next", ret |-> n.ret, before |-> cursor]
    /\ UNCHANGED <<source, out, offsets, ended, extra, pulls, prompt>>

\* self.peek()
CallPeek ==
    /\ cursor' = cursor
    /\ last' = [op |-> "peek", ret |-> CursorPeek(cursor), before |-> cursor]
    /\ UNCHANGED <<source, out, offsets, ended, extra, pulls, eofNexts, prompt>>

\* self.next_matches(expected)
CallNextMatches ==
    \E expected \in CursorAlphabet :
        LET m == NextMatches(cursor, expected)
        IN  /\ cursor' = m.cur
            /\ last' = [op |-> "next_matches",
                        ret |-> IF m.ret THEN "true" ELSE "false",
                        before |-> cursor]
            /\ UNCHANGED <<source, out, offsets, ended, extra, pulls, eofNexts, prompt>>

NextCursor == CallNext \/ CallPeek \/ CallNextMatches

InitCursor ==
    \E input \in BoundedSeq(CursorAlphabet, MaxCursorLen) : Start(input)

SpecCursor == InitCursor /\ [][NextCursor]_vars

\* -------------------------------------------------- the interactive loop
\* run_prompt of main.rs.  What the terminal hands over is the environment's
\* choice: a line, end of input, or a failure of a read or a write.
MaxLineLen == 2

\* Reads made by one run of the loop
MaxLines == 2

LineAlphabet == {"q", "!"}

\* format!("{quit}\n")
QuitLine == <<"q", "!", "\n">>

\* The test of the quit line made on the trimmed line
IsQuit_Trimmed(line) == line \in {<<"q", "!">>, QuitLine}

\* line == format!("{quit}\n")
IsQuit(line) == line = QuitLine

\* What read_line can leave in `line` with bytes > 0: a text that ends with
\* its newline, or the last text of the input, without one
ReadableLines ==
    {body \o nl : body \in BoundedSeq(LineAlphabet, MaxLineLen),
                  nl \in {<<>>, <<"\n">>}} \ {<<>>}

\* The tokens the loop of run takes from tokenize(src), up to its None
RECURSIVE Collect(_)
Collect(c) ==
    LET r == TokenizeNext(c)
    IN  IF r.item = <<>> THEN <<>> ELSE r.item \o Collect(r.cur)

\* run(src): the tokens it prints, in order
Run(src) ==
    SelectSeq(Collect(CursorNew(src)), LAMBDA t : t.type # "Whitespace")

\* The input has more to read: nothing was read yet, or the last read gave
\* a line that ended with a newline
MoreToRead ==
    IF prompt.reads = <<>> THEN TRUE
    ELSE LET r == prompt.reads[Len(prompt.reads)]
         IN  r.kind = "line" /\ r.text[Len(r.text)] = "\n"

LexerIdle ==
    UNCHANGED <<source, cursor, out, offsets, ended, extra, pulls, eofNexts, last>>

\* run_prompt is entered and writes its banner
EnterPrompt ==
    /\ prompt.status = "idle"
    /\ prompt' = [prompt EXCEPT !.status = "running"]
    /\ LexerIdle

\* A write_all or flush of the banner or of the prompt returns an error:
\* run_prompt returns it
WriteFails ==
    /\ prompt.status \in {"idle", "running"}
    /\ prompt' = [prompt EXCEPT !.status = "failed"]
    /\ LexerIdle

\* One iteration of the loop in which read_line returns a line
ReadLine ==
    /\ prompt.status = "running"
    /\ Len(prompt.reads) < MaxLines
    /\ MoreToRead
    /\ \E line \in ReadableLines :
          LET reads1 == Append(prompt.reads, [kind |-> "line", text |-> line])
          IN  IF IsQuit(line)
              THEN prompt' = [prompt EXCEPT !.reads = reads1, !.status = "done"]
              ELSE prompt' = [prompt EXCEPT !.reads = reads1,
                                            !.ran = Append(@, line),
                                            !.printed = @ \o Run(line)]
    /\ LexerIdle

\* One iteration in which read_line returns a line that is not the quit line
\* and a println! of run fails after k tokens: the program panics
PrintPanics ==
    /\ prompt.status = "running"
    /\ Len(prompt.reads) < MaxLines
    /\ MoreToRead
    /\ \E line \in ReadableLines :
          /\ ~IsQuit(line)
          /\ \E k \in 0..(Len(Run(line)) - 1) :
                prompt' = [prompt EXCEPT
                              !.reads = Append(@, [kind |-> "line", text |-> line]),
                              !.ran = Append(@, line),
                              !.printed = @ \o SubSeq(Run(line), 1, k),
                              !.status = "panicked"]
    /\ LexerIdle

\* One iteration in which read_line returns Ok(0): end of input
ReadEof ==
    /\ prompt.status = "running"
    /\ Len(prompt.reads) < MaxLines
    /\ prompt' = [prompt EXCEPT
                    !.reads = Append(@, [kind |-> "eof", text |-> <<>>]),
                    !.status = "done"]
    /\ LexerIdle

\* One iteration in which read_line returns an error: run_prompt returns it
ReadFails ==
    /\ prompt.status = "running"
    /\ Len(prompt.reads) < MaxLines
    /\ prompt' = [prompt EXCEPT
                    !.reads = Append(@, [kind |-> "err", text |-> <<>>]),
                    !.status = "failed"]
    /\ LexerIdle

NextPrompt ==
    EnterPrompt \/ WriteFails \/ ReadLine \/ PrintPanics \/ ReadEof \/ ReadFails

InitPrompt == Start(<<>>)

SpecPrompt == InitPrompt /\ [][NextPrompt]_vars

\* ------------------------------------------------------- derived notions
\* The characters of source that produced out[i]
Lexeme(i) == SubSeq(source, (IF i = 1 THEN 0 ELSE offsets[i - 1]) + 1, offsets[i])

\* The characters of source not yet consumed
Rest == cursor.iter

\* The number of characters consumed so far
Consumed == Len(source) - Len(cursor.iter)

\* The number of characters consumed before out[i]'s lexeme
StartOf(i) == IF i = 1 THEN 0 ELSE offsets[i - 1]

\* The character of source after position k, None past the end
CharAfter(k) == IF k < Len(source) THEN source[k + 1] ELSE None

\* The tokens advance_token returns from cursor c on, up to and excluding
\* the first Eof, computed without the stream adapter
RECURSIVE ScanAll(_)
ScanAll(c) ==
    LET r == AdvanceToken(c)
    IN  IF r.tok.type = "Eof" THEN <<>> ELSE <<r.tok>> \o ScanAll(r.cur)

IsPrefix(s, t) == Len(s) <= Len(t) /\ s = SubSeq(t, 1, Len(s))

\* ----------------------------------------------------------------- claims

\* C1: tokenize is total and finite.  Every pull made while characters
\* remain hands over exactly one token and consumes at least one character
\* from the front of the remaining input (the offsets grow strictly and the
\* remaining input is always a suffix of the source); only a pull made with
\* nothing left returns end-of-sequence; so at most as many tokens are
\* handed over as the input has characters.
C1_TotalAndFinite ==
    /\ Len(offsets) = Len(out)
    /\ \A i \in 1..Len(offsets) :
          /\ offsets[i] > (IF i = 1 THEN 0 ELSE offsets[i - 1])
          /\ offsets[i] <= Len(source)
    /\ Rest = SubSeq(source, Consumed + 1, Len(source))
    /\ Len(out) <= Len(source)
    /\ pulls = Len(out) + (IF ended THEN 1 + extra ELSE 0)
    /\ (ended => Rest = <<>>)
    /\ (Rest # <<>> => ~ended)

\* C1 witness: a scan that ended after tokens of one and of several characters
C1_Witness ==
    /\ ended
    /\ Len(out) >= 2
    /\ \E i \in 1..Len(out) : Len(Lexeme(i)) >= 2
    /\ \E i \in 1..Len(out) : Len(Lexeme(i)) = 1

\* C5: the stream hands over every token advance_token returns, in order
\* and unfiltered, except Eof, which is never handed over; end-of-sequence
\* is returned exactly by the first pull made when no characters remain,
\* and the empty input gives the empty sequence.
C5_AdapterUnfiltered ==
    /\ IsPrefix(out, ScanAll(CursorNew(source)))
    /\ (ended => out = ScanAll(CursorNew(source)))
    /\ \A i \in 1..Len(out) : out[i].type # "Eof"
    /\ (ended <=> pulls > Len(out))
    /\ (ended => Rest = <<>> /\ pulls = Len(out) + 1 + extra)
    /\ (Rest = <<>> /\ pulls > Len(out) => ended)
    /\ (source = <<>> => out = <<>>)

\* C5 witness: an ended sequence that holds a Whitespace and a Comment token
C5_Witness ==
    /\ ended
    /\ \E i \in 1..Len(out) : out[i].type = "Whitespace"
    /\ \E i \in 1..Len(out) : out[i].type = "Comment"

\* The 1-based position just past the last character of s: line is one more
\* than the number of newlines, col one more than the number of characters
\* after the last newline
NewlineCount(s) == Cardinality({i \in 1..Len(s) : s[i] = "\n"})

LastNewline(s) ==
    IF NewlineCount(s) = 0 THEN 0
    ELSE CHOOSE i \in 1..Len(s) :
            s[i] = "\n" /\ \A j \in (i + 1)..Len(s) : s[j] # "\n"

PositionPast(s) == <<1 + NewlineCount(s), 1 + Len(s) - LastNewline(s)>>

\* C2 (as claimed): a string literal whose quote is not closed before the
\* end of input gives exactly one Unexpected token, the last of the stream,
\* and its (line, col) is the position just past the whole input, whatever
\* the content, also when the content holds or ends with newlines.
C2_UnterminatedPosition ==
    \A i \in 1..Len(out) :
        out[i].type = "Unexpected" =>
            /\ i = Len(out)
            /\ offsets[i] = Len(source)
            /\ Head(Lexeme(i)) = "\""
            /\ <<out[i].line, out[i].col>> = PositionPast(source)

\* C6: a token that starts at a quote is a String unless the input ends
\* before the string does (then it is Unexpected); a String token's payload
\* is exactly the characters of its lexeme between the opening and the
\* terminating quote: both quotes are left out, backslashes and the
\* characters after them are kept as they are.
C6_StringPayloadVerbatim ==
    \A i \in 1..Len(out) :
        /\ source[StartOf(i) + 1] = "\"" =>
              \/ out[i].type = "String"
              \/ out[i].type = "Unexpected" /\ offsets[i] = Len(source)
        /\ out[i].type = "String" =>
              Lexeme(i) = <<"\"">> \o out[i].text \o <<"\"">>

\* C6 witness: a String token whose payload holds a backslash followed by a
\* quote
C6_Witness ==
    \E i \in 1..Len(out) :
        /\ out[i].type = "String"
        /\ \E j \in 1..(Len(out[i].text) - 1) :
              out[i].text[j] = "\\" /\ out[i].text[j + 1] = "\""

\* The fixed token of each of the eleven punctuation characters
PunctToken(ch) ==
    CASE ch = "(" -> "LeftParen"  [] ch = ")" -> "RightParen"
      [] ch = "{" -> "LeftBrace"  [] ch = "}" -> "RightBrace"
      [] ch = "," -> "Comma"      [] ch = "." -> "Dot"
      [] ch = "-" -> "Minus"      [] ch = "+" -> "Plus"
      [] ch = ";" -> "Semicolon"  [] ch = "/" -> "Slash"
      [] ch = "*" -> "Star"

OnlyPunct(s) == \A i \in 1..Len(s) : s[i] \in PunctAlphabet

NoAdjacentSlashes(s) ==
    \A i \in 1..(Len(s) - 1) : ~(s[i] = "/" /\ s[i + 1] = "/")

\* One fixed punctuation token per character of the source, in order
OneTokenPerChar ==
    /\ \A i \in 1..Len(out) :
          offsets[i] = i /\ out[i] = Tok(PunctToken(source[i]))
    /\ (ended => Len(out) = Len(source))

\* C3 (as claimed): every input made only of the eleven punctuation
\* characters, adjacent slashes included, gives exactly one fixed
\* punctuation token per input character, in input order, and nothing else.
C3_PunctuationAny == OnlyPunct(source) => OneTokenPerChar

\* C3 (amended): every input made only of the eleven punctuation characters
\* in which no slash is immediately followed by another slash gives exactly
\* one fixed punctuation token per input character, in input order, and
\* nothing else.
C3_PunctuationNoComment ==
    OnlyPunct(source) /\ NoAdjacentSlashes(source) => OneTokenPerChar

\* C3 witness: a finished scan of three punctuation characters, slashes
\* among them but never two in a row
C3_Witness ==
    /\ ended
    /\ Len(source) >= 3
    /\ OnlyPunct(source) /\ NoAdjacentSlashes(source)
    /\ \E i \in 1..Len(source) : source[i] = "/"
    /\ \E i \in 1..Len(source) : source[i] = "-"
    /\ Len(out) = Len(source)

\* The one- and the two-character variant of each operator character
OneCharToken(ch) ==
    CASE ch = "!" -> "Bang" [] ch = "=" -> "Equal"
      [] ch = "<" -> "Less" [] ch = ">" -> "Greater"

TwoCharToken(ch) ==
    CASE ch = "!" -> "BangEqual" [] ch = "=" -> "EqualEqual"
      [] ch = "<" -> "LessEqual" [] ch = ">" -> "GreaterEqual"

\* C4: a token that starts at one of ! = < > is the two-character variant,
\* of two characters, when the character after the first is '=', and
\* otherwise the one-character variant, of one character, so that the next
\* character is left for the following token; "===" gives EqualEqual, Equal.
C4_OneOrTwoCharacters ==
    /\ \A i \in 1..Len(out) :
          LET first == source[StartOf(i) + 1]
          IN  first \in {"!", "=", "<", ">"} =>
                IF CharAfter(StartOf(i) + 1) = "="
                THEN out[i] = Tok(TwoCharToken(first)) /\ offsets[i] = StartOf(i) + 2
                ELSE out[i] = Tok(OneCharToken(first)) /\ offsets[i] = StartOf(i) + 1
    /\ (source = <<"=", "=", "=">> /\ ended =>
          out = <<Tok("EqualEqual"), Tok("Equal")>>)

\* C4 witness: the finished scan of "==="
C4_Witness ==
    source = <<"=", "=", "=">> /\ ended /\ Len(out) = 2

\* The number of dots of s
DotCount(s) == Cardinality({i \in 1..Len(s) : s[i] = "."})

\* C7: a token that starts at a digit is a Number whose lexeme is made of
\* digits and at most one '.', and is maximal: the character after it is
\* not a digit, and is a '.' only when the lexeme already holds one.  The
\* '.' is taken whatever follows it.  "1.2.3" gives Number(1.2), Dot,
\* Number(3).
C7_NumberRun ==
    /\ \A i \in 1..Len(out) :
          IsDigit(source[StartOf(i) + 1]) =>
            LET after == CharAfter(offsets[i])
            IN  /\ out[i].type = "Number"
                /\ \A j \in 1..Len(Lexeme(i)) :
                      IsDigit(Lexeme(i)[j]) \/ Lexeme(i)[j] = "."
                /\ DotCount(Lexeme(i)) <= 1
                /\ ~IsDigit(after)
                /\ (after = "." => DotCount(Lexeme(i)) = 1)
    /\ (source = <<"1", ".", "2", ".", "3">> /\ ended =>
          out = <<TokNumber(<<12, 1>>), Tok("Dot"), TokNumber(<<3, 0>>)>>)

\* C7 witness: the finished scan of "1.2.3"
C7_Witness ==
    source = <<"1", ".", "2", ".", "3">> /\ ended /\ Len(out) = 3

\* C7 witness of a '.' taken before a character that is no digit
C7_WitnessDotBeforeLetter ==
    \E i \in 1..Len(out) :
        /\ out[i].type = "Number"
        /\ Lexeme(i)[Len(Lexeme(i))] = "."
        /\ CharAfter(offsets[i]) = "a"

IdentLike == KeywordTypes \cup {"Ident"}

\* C8: a token that starts at a letter or underscore is a keyword token
\* exactly when its whole lexeme is one of the 16 reserved words, compared
\* with regard to case, and is then that word's own variant; otherwise it is
\* an Ident that carries the whole lexeme.  "printable" is one Ident.
C8_KeywordExactMatch ==
    /\ Cardinality(ReservedLexemes) = 16 /\ Cardinality(KeywordTypes) = 16
    /\ \A i \in 1..Len(out) :
          IsAlpha(source[StartOf(i) + 1]) =>
            IF Lexeme(i) \in ReservedLexemes
            THEN \E p \in ReservedWords : p[1] = Lexeme(i) /\ out[i] = Tok(p[2])
            ELSE out[i] = TokText("Ident", Lexeme(i))
    /\ \A i \in 1..Len(out) :
          out[i].type \in KeywordTypes => Lexeme(i) \in ReservedLexemes
    /\ (source = Printable /\ ended => out = <<TokText("Ident", Printable)>>)

\* C8 witness: the finished scan of "printable"
C8_Witness == source = Printable /\ ended /\ Len(out) = 1

\* C8 witness of a keyword token next to other tokens
C8_WitnessKeyword ==
    ended /\ Len(out) = 3 /\ out[2].type = "While"

\* C8 witness of a reserved word written in upper case, an Ident
C8_WitnessUpperCase ==
    \E i \in 1..Len(out) :
        /\ out[i].type = "Ident"
        /\ Lexeme(i) \notin ReservedLexemes
        /\ ToLower(Lexeme(i)) \in ReservedLexemes

\* C9: an Ident or keyword token's lexeme is a letter or underscore followed
\* by letters, digits and underscores, and it is maximal: the character
\* after it, if any, is no letter, digit or underscore; so no two Ident or
\* keyword tokens are adjacent in the stream.
C9_IdentifierMaximalMunch ==
    \A i \in 1..Len(out) :
        out[i].type \in IdentLike =>
            /\ IsAlpha(Lexeme(i)[1])
            /\ \A j \in 1..Len(Lexeme(i)) : IsAlphanumeric(Lexeme(i)[j])
            /\ (offsets[i] < Len(source) => ~IsAlphanumeric(CharAfter(offsets[i])))
            /\ (i = Len(out) /\ Rest # <<>> => ~IsAlphanumeric(Head(Rest)))
            /\ (i < Len(out) => out[i + 1].type \notin IdentLike)

\* C9 witness: an Ident of a letter, a digit and an underscore, followed by
\* another token
C9_Witness ==
    \E i \in 1..(Len(out) - 1) :
        /\ out[i].type = "Ident"
        /\ \E j \in 1..Len(Lexeme(i)) : Lexeme(i)[j] = "1"
        /\ \E j \in 1..Len(Lexeme(i)) : Lexeme(i)[j] = "_"
        /\ \E j \in 1..Len(Lexeme(i)) : Lexeme(i)[j] = "r"

\* C10: a token that starts at "//" is a Comment whose lexeme is the two
\* slashes followed by its payload; the payload holds no newline and runs up
\* to the next newline or the end of input; the newline is not consumed and
\* starts the next token, a Whitespace.
C10_CommentStopsAtNewline ==
    /\ \A i \in 1..Len(out) :
          (source[StartOf(i) + 1] = "/" /\ CharAfter(StartOf(i) + 1) = "/")
            <=> out[i].type = "Comment"
    /\ \A i \in 1..Len(out) :
          out[i].type = "Comment" =>
            /\ Lexeme(i) = <<"/", "/">> \o out[i].text
            /\ \A j \in 1..Len(out[i].text) : out[i].text[j] # "\n"
            /\ CharAfter(offsets[i]) \in {"\n", None}
            /\ (i < Len(out) =>
                  /\ out[i + 1].type = "Whitespace"
                  /\ source[StartOf(i + 1) + 1] = "\n")

\* C10 witness: a Comment with a payload, then the Whitespace of the
\* newline, then an Ident
C10_Witness ==
    \E i \in 1..(Len(out) - 2) :
        /\ out[i].type = "Comment" /\ Len(out[i].text) > 0
        /\ out[i + 1].type = "Whitespace"
        /\ out[i + 2].type = "Ident"

\* The maximal runs of whitespace characters of s, as <<first, last>>
WhitespaceRuns(s) ==
    {r \in (1..Len(s)) \X (1..Len(s)) :
        /\ r[1] <= r[2]
        /\ \A k \in r[1]..r[2] : IsWhitespace(s[k])
        /\ (r[1] > 1 => ~IsWhitespace(s[r[1] - 1]))
        /\ (r[2] < Len(s) => ~IsWhitespace(s[r[2] + 1]))}

\* Every maximal run of whitespace of the source is the lexeme of exactly
\* one Whitespace token
EveryRunOneToken ==
    \A r \in WhitespaceRuns(source) :
        Cardinality({i \in 1..Len(out) :
                        /\ out[i].type = "Whitespace"
                        /\ StartOf(i) + 1 = r[1]
                        /\ offsets[i] = r[2]}) = 1

NoAdjacentWhitespace ==
    \A i \in 1..(Len(out) - 1) :
        ~(out[i].type = "Whitespace" /\ out[i + 1].type = "Whitespace")

\* C11 (as claimed): every maximal run of whitespace characters of the
\* input gives exactly one Whitespace token, and no two Whitespace tokens
\* are adjacent in the stream.
C11_EveryWhitespaceRun ==
    /\ (ended => EveryRunOneToken)
    /\ NoAdjacentWhitespace

\* C11 (amended): a token that starts at a whitespace character is a
\* Whitespace token over the maximal run of whitespace from there, and only
\* such tokens are Whitespace, so no two Whitespace tokens are adjacent;
\* in an input without quote and without "//" every maximal run of
\* whitespace gives exactly one Whitespace token.  (Whitespace inside a
\* string literal or a comment is part of that token.)
C11_WhitespaceCoalesces ==
    /\ \A i \in 1..Len(out) :
          /\ IsWhitespace(source[StartOf(i) + 1]) <=> out[i].type = "Whitespace"
          /\ out[i].type = "Whitespace" =>
                /\ \A j \in 1..Len(Lexeme(i)) : IsWhitespace(Lexeme(i)[j])
                /\ ~IsWhitespace(CharAfter(offsets[i]))
    /\ NoAdjacentWhitespace
    /\ (/\ ended
        /\ \A k \in 1..Len(source) : source[k] # "\""
        /\ NoAdjacentSlashes(source)
        => EveryRunOneToken)

\* C11 witness: one Whitespace token over a blank, a newline and a tab, with
\* a token before and after it
C11_Witness ==
    /\ ended
    /\ \E i \in 2..(Len(out) - 1) :
          /\ out[i].type = "Whitespace"
          /\ \E j \in 1..Len(Lexeme(i)) : Lexeme(i)[j] = " "
          /\ \E j \in 1..Len(Lexeme(i)) : Lexeme(i)[j] = "\n"
          /\ \E j \in 1..Len(Lexeme(i)) : Lexeme(i)[j] = "\t"

\* The characters some arm of advance_token other than the last one takes
Classified(ch) ==
    \/ IsWhitespace(ch)
    \/ ch \in PunctAlphabet
    \/ ch \in {"!", "=", "<", ">"}
    \/ ch = "\""
    \/ IsDigit(ch)
    \/ IsAlpha(ch)

\* C12: a token is Unknown exactly when the character it starts at is not
\* whitespace, punctuation, an operator character, a quote, a digit, a
\* letter or an underscore; an Unknown token consumes that one character
\* and the next token starts right after it.  A token that starts at a
\* digit is never Unknown: its lexeme always parses.
C12_UnknownExactly ==
    \A i \in 1..Len(out) :
        /\ out[i].type = "Unknown" <=> ~Classified(source[StartOf(i) + 1])
        /\ out[i].type = "Unknown" =>
              /\ offsets[i] = StartOf(i) + 1
              /\ (i < Len(out) => StartOf(i + 1) = StartOf(i) + 1)
        /\ IsDigit(source[StartOf(i) + 1]) =>
              /\ out[i].type = "Number"
              /\ ParseF64(Lexeme(i)).ok

\* C12 witness: an Unknown token, then a Number whose lexeme ends with '.'
C12_Witness ==
    \E i \in 1..(Len(out) - 1) :
        /\ out[i].type = "Unknown"
        /\ out[i + 1].type = "Number"
        /\ Lexeme(i + 1)[Len(Lexeme(i + 1))] = "."

\* The characters consumed so far
ConsumedPrefix == SubSeq(source, 1, Consumed)

\* The characters consumed so far, followed by one EOF_CHAR for every call
\* of next made with no character left
Taken == ConsumedPrefix \o [k \in 1..eofNexts |-> EOF_CHAR]

\* The 1-based position of the last element of s, <<1, 0>> for the empty s
PositionOfLast(s) ==
    IF s = <<>> THEN <<1, 0>>
    ELSE LET before == SubSeq(s, 1, Len(s) - 1)
         IN  <<1 + NewlineCount(before), Len(s) - LastNewline(before)>>

\* C13 (as claimed): in every cursor state (line, col) is the 1-based
\* position of the character about to be consumed next: (1, 1) before
\* anything is consumed, (line + 1, 1) right after a newline was consumed.
C13_PositionOfNext ==
    <<cursor.line, cursor.col>> = PositionPast(ConsumedPrefix)

\* C13 (amended): in every cursor state (line, col) is the 1-based position
\* of the character the latest call of next consumed, (1, 0) before any
\* call; right after a newline was consumed it is still the newline's own
\* position, and the move to (line + 1, 1) is made by the next call of
\* next.  A call of next made at end of input moves the position as if it
\* had consumed one more character.
C13_PositionOfLast ==
    /\ <<cursor.line, cursor.col>> = PositionOfLast(Taken)
    /\ cursor.prev = (IF Taken = <<>> THEN EOF_CHAR ELSE Taken[Len(Taken)])
    /\ (Taken = <<>> => cursor.line = 1 /\ cursor.col = 0)

\* C13 witness: a newline was consumed and the position is still its own,
\* on the second line of the input
C13_Witness ==
    /\ cursor.prev = "\n"
    /\ cursor.line = 2 /\ cursor.col = 2
    /\ eofNexts = 0
    /\ last.op = "next"

\* The latest call consumed a character
LastConsumed ==
    \/ last.op = "next" /\ last.ret # None
    \/ last.op = "next_matches" /\ last.ret = "true"

\* The latest call consumed nothing: a peek, a next_matches that did not
\* match, a next made at end of input
LastConsumedNothing ==
    \/ last.op = "peek"
    \/ last.op = "next_matches" /\ last.ret = "false"
    \/ last.op = "next" /\ last.ret = None

\* The number of characters of s on its last line, the line of a newline
\* being the one it ends
CountOnCurrentLine(s) ==
    IF s = <<>> THEN 0
    ELSE Len(s) - LastNewline(SubSeq(s, 1, Len(s) - 1))

\* C14 (as claimed): a call that consumes a character adds one to col, or,
\* when the character consumed before it was a newline, adds one to line
\* and sets col to 1; a peek, a next_matches that does not match and a next
\* made at end of input leave line and col as they were; so col is always
\* the number of characters consumed on the current line.
C14_ColumnCountsConsumed ==
    /\ LastConsumed =>
          IF last.before.prev = "\n"
          THEN cursor.line = last.before.line + 1 /\ cursor.col = 1
          ELSE cursor.line = last.before.line /\ cursor.col = last.before.col + 1
    /\ LastConsumedNothing =>
          cursor.line = last.before.line /\ cursor.col = last.before.col
    /\ cursor.col = CountOnCurrentLine(ConsumedPrefix)

\* The index of the quote that ends a string body starting at s[k], 0 when
\* there is none, with backslashes paired: a backslash escapes the character
\* after it unless it is itself escaped
RECURSIVE PairedEnd(_, _, _)
PairedEnd(s, k, escaped) ==
    IF k > Len(s) THEN 0
    ELSE IF escaped THEN PairedEnd(s, k + 1, FALSE)
    ELSE IF s[k] = "\\" THEN PairedEnd(s, k + 1, TRUE)
    ELSE IF s[k] = "\"" THEN k
    ELSE PairedEnd(s, k + 1, FALSE)

\* C15 (as claimed): in a string scan a quote is part of the body only when
\* the character before it is a backslash that is not itself the second
\* character of an earlier escape pair; every other quote ends the string:
\* a token that starts at a quote is the String that ends at the first such
\* quote, and Unexpected when there is none.  So a quote after one backslash
\* does not end the string and a quote after two backslashes does.
C15_EscapePairs ==
    \A i \in 1..Len(out) :
        source[StartOf(i) + 1] = "\"" =>
            LET e == PairedEnd(source, StartOf(i) + 2, FALSE)
            IN  IF e = 0
                THEN out[i].type = "Unexpected"
                ELSE /\ out[i].type = "String"
                     /\ offsets[i] = e
                     /\ out[i].text = SubSeq(source, StartOf(i) + 2, e - 1)

\* C16: an Unexpected token is returned only by a string scan that reached
\* the end of input: its lexeme starts at a quote, runs to the end of the
\* source and holds no further quote but those that follow a backslash;
\* nothing is left to consume after it.  So the stream holds at most one
\* Unexpected token and, when it holds one, it is the last token.
C16_UnexpectedOnlyAtEnd ==
    /\ \A i \in 1..Len(out) :
          out[i].type = "Unexpected" =>
            /\ Lexeme(i)[1] = "\""
            /\ \A j \in 2..Len(Lexeme(i)) :
                  Lexeme(i)[j] = "\"" => j > 2 /\ Lexeme(i)[j - 1] = "\\"
            /\ offsets[i] = Len(source)
            /\ Rest = <<>>
            /\ i = Len(out)
    /\ Cardinality({i \in 1..Len(out) : out[i].type = "Unexpected"}) <= 1

\* C16 witness: a finished scan whose last token is an Unexpected with a
\* quote in its body, after other tokens
C16_Witness ==
    /\ ended
    /\ Len(out) >= 2
    /\ out[Len(out)].type = "Unexpected"
    /\ \E j \in 2..Len(Lexeme(Len(out))) : Lexeme(Len(out))[j] = "\""

\* C17: once a pull has returned end-of-sequence, every later pull returns
\* end-of-sequence too and hands over no token: the stream stays ended and
\* the tokens handed over stay as they are.
C17_EndIsFinal ==
    [][ended => /\ ended'
                /\ out' = out
                /\ last'.op = "pull" /\ last'.ret = None
                /\ pulls' = pulls + 1]_vars

\* C17 witness: two pulls made after the end of a stream that handed over
\* tokens
C17_Witness ==
    ended /\ extra >= 2 /\ Len(out) >= 1 /\ last.ret = None

\* A read that ends the loop by the rule of the claim: the quit line or the
\* end of input
EndsLoop(r) == r.kind = "eof" \/ (r.kind = "line" /\ r.text = QuitLine)

\* The texts of the reads that gave a line other than the quit line
RECURSIVE LinesToRun(_)
LinesToRun(reads) ==
    IF reads = <<>> THEN <<>>
    ELSE (IF Head(reads).kind = "line" /\ Head(reads).text # QuitLine
          THEN <<Head(reads).text>> ELSE <<>>) \o LinesToRun(Tail(reads))

\* The tokens of the lines, in order, but the Whitespace tokens
RECURSIVE TokensToPrint(_)
TokensToPrint(lines) ==
    IF lines = <<>> THEN <<>>
    ELSE SelectSeq(ScanAll(CursorNew(Head(lines))),
                   LAMBDA t : t.type # "Whitespace")
         \o TokensToPrint(Tail(lines))

\* A read that ends the loop is the last read and is not handed to run; the
\* other lines are handed to run once each, in the order read
QuitAndEofNotTokenized ==
    /\ \A i \in 1..Len(prompt.reads) :
          EndsLoop(prompt.reads[i]) =>
              i = Len(prompt.reads) /\ prompt.status = "done"
    /\ prompt.ran = LinesToRun(prompt.reads)

\* C18 (as claimed): the loop has ended exactly when the last read gave the
\* quit line or the end of input; every other line read was tokenized once,
\* in the order read, and all its tokens but Whitespace were printed before
\* the next read; a quit line or the end of input is never tokenized.
C18_LoopExitsOnlyOnQuitOrEof ==
    /\ prompt.status \notin {"idle", "running"} <=>
          (prompt.reads # <<>> /\ EndsLoop(prompt.reads[Len(prompt.reads)]))
    /\ QuitAndEofNotTokenized
    /\ prompt.printed = TokensToPrint(prompt.ran)

\* C18 (amended): the loop has returned Ok exactly when the last read gave
\* the quit line or the end of input; otherwise it ends only by a failure of
\* the terminal: a failed write or read, whose error run_prompt returns, or
\* a failed println!, which panics.  Every other line read was tokenized
\* once, in the order read, and all its tokens but Whitespace were printed
\* before the next read, unless a println! failed, which leaves the tokens
\* of the last line printed in part; a quit line or the end of input is
\* never tokenized.
C18_LoopExits ==
    /\ prompt.status = "done" <=>
          (prompt.reads # <<>> /\ EndsLoop(prompt.reads[Len(prompt.reads)]))
    /\ prompt.status \in {"idle", "running", "done", "failed", "panicked"}
    /\ \A i \in 1..Len(prompt.reads) :
          prompt.reads[i].kind = "err" =>
              i = Len(prompt.reads) /\ prompt.status = "failed"
    /\ QuitAndEofNotTokenized
    /\ IF prompt.status = "panicked"
       THEN /\ IsPrefix(prompt.printed, TokensToPrint(prompt.ran))
            /\ IsPrefix(TokensToPrint(SubSeq(prompt.ran, 1, Len(prompt.ran) - 1)),
                        prompt.printed)
            /\ prompt.printed # TokensToPrint(prompt.ran)
       ELSE prompt.printed = TokensToPrint(prompt.ran)

\* C18 witness: a line was read and its two tokens printed, then the quit
\* line was read and the loop ended
C18_Witness ==
    /\ prompt.status = "done"
    /\ Len(prompt.reads) = 2
    /\ prompt.reads[2].text = QuitLine
    /\ Len(prompt.ran) = 1
    /\ Len(prompt.printed) = 2

====
